---- MODULE Spec2Model ----
(***************************************************************************)
(* Block primitives of src/primitives/block.h: CBlockHeader, CBlock and    *)
(* CBlockLocator, their serialization, the proof-of-stake discriminator    *)
(* and the denial-of-service score.                                        *)
(***************************************************************************)
EXTENDS Integers, Sequences, FiniteSets, TLC

VARIABLES
    blk,        \* the CBlock the calls act on (the writer's block when encoding)
    dst,        \* the CBlock a stream is decoded into
    pre,        \* history: dst and the stream as they were when the last decode started
    stream,     \* the bytes of the data stream
    nType,      \* the stream's type flags (s.GetType())
    phase,      \* position of the encode / decode scenario
    lastOp,     \* the member function called last
    ret,        \* what the last call returned
    args,       \* history: the arguments (nDoSIn, fIn) of the last DoS call
    sumIn,      \* history: sum of nDoSIn since the last CBlock::SetNull
    retPoS,     \* result of the last IsProofOfStake() on the current vtx
    retPoW,     \* result of the last IsProofOfWork() on the current vtx
    kernel,     \* result of the last GetProofOfStake() on the current vtx
    oobRead,    \* history: the last call evaluated vtx[1] on a vtx of size <= 1
    loc,        \* the CBlockLocator (its vHave)
    sVersion,   \* the stream's version (s.GetVersion())
    pc,         \* per thread: position inside DoS
    reg,        \* per thread: the value of nDoS it loaded
    amt,        \* per thread: nDoSIn of its call in flight
    calls       \* per thread: calls made so far

vars == <<blk, dst, pre, stream, nType, phase, lastOp, ret, args, sumIn,
          retPoS, retPoW, kernel, oobRead, loc, sVersion, pc, reg, amt, calls>>

----------------------------------------------------------------------------
(* Bounds of the model *)

MaxTx == 2
MaxSig == 2
MaxHave == 2
MaxDoS == 120
MaxCalls == 2
NThreads == 2

----------------------------------------------------------------------------
(* Constants of CBlockHeader *)

LEGACY_VERSION_2 == 2
LEGACY_VERSION_3 == 3
CURRENT_VERSION == 4

Bool2Str(b) == IF b THEN "true" ELSE "false"

SeqsUpTo(S, n) == UNION {[1..k -> S] : k \in 0..n}

----------------------------------------------------------------------------
(* Transactions: the opaque CTransaction, reduced to what CBlock reads:    *)
(* IsCoinStake(), vin[0].prevout and nTime.                                *)

NullOutPoint == [hash |-> 0, n |-> 0]

OutPoints == {NullOutPoint, [hash |-> 1, n |-> 2]}

Txs == [stake : BOOLEAN, prevout : OutPoints, nTime : {0, 7}]

SerTx(tx) == <<IF tx.stake THEN 1 ELSE 0, tx.prevout.hash, tx.prevout.n, tx.nTime>>

UnserTx(b) == [stake |-> b[1] = 1, prevout |-> [hash |-> b[2], n |-> b[3]], nTime |-> b[4]]

TxLen == Len(SerTx(CHOOSE t \in Txs : TRUE))

----------------------------------------------------------------------------
(* Fixed-width and length-prefixed encodings of the stream library *)

RECURSIVE LEBytes(_, _)
LEBytes(v, n) == IF n = 0 THEN <<>> ELSE <<v % 256>> \o LEBytes(v \div 256, n - 1)

RECURSIVE FromLE(_)
FromLE(b) == IF b = <<>> THEN 0 ELSE b[1] + 256 * FromLE(Tail(b))

SerInt32(v) ==
    IF v >= 0 THEN LEBytes(v, 4)
    ELSE LET b == LEBytes(v + 2147483647 + 1, 4) IN [b EXCEPT ![4] = @ + 128]

UnserInt32(b) ==
    IF b[4] < 128 THEN FromLE(b)
    ELSE FromLE([b EXCEPT ![4] = @ - 128]) - 2147483647 - 1

SerUint32(v) == LEBytes(v, 4)

UnserUint32(b) == FromLE(b)

SerUint256(h) == LEBytes(h, 32)

UnserUint256(b) == FromLE(b)

WriteCompactSize(n) == <<n>>

RECURSIVE Concat(_)
Concat(ss) == IF ss = <<>> THEN <<>> ELSE Head(ss) \o Concat(Tail(ss))

SerTxVector(v) == WriteCompactSize(Len(v)) \o Concat([i \in 1..Len(v) |-> SerTx(v[i])])

SerByteVector(v) == WriteCompactSize(Len(v)) \o v

SerHashVector(v) == WriteCompactSize(Len(v)) \o Concat([i \in 1..Len(v) |-> SerUint256(v[i])])

Drop(s, n) == SubSeq(s, n + 1, Len(s))

Take(s, n) == SubSeq(s, 1, n)

----------------------------------------------------------------------------
(* CBlockHeader *)

HeaderFields == {"nVersion", "hashPrevBlock", "hashMerkleRoot", "nTime", "nBits", "nNonce"}

CBlockHeader_SetNull(b) ==
    [b EXCEPT !.nVersion = 0, !.hashPrevBlock = 0, !.hashMerkleRoot = 0,
              !.nTime = 0, !.nBits = 0, !.nNonce = 0]

(* IsNull testing the whole header instead of nBits alone *)
CBlockHeader_IsNull_WholeHeader(b) == b.nBits = 0 /\ b.nTime = 0 /\ b.nNonce = 0

CBlockHeader_IsNull(b) == b.nBits = 0

CBlockHeader_Serialize(b) ==
    SerInt32(b.nVersion) \o SerUint256(b.hashPrevBlock) \o SerUint256(b.hashMerkleRoot)
        \o SerUint32(b.nTime) \o SerUint32(b.nBits) \o SerUint32(b.nNonce)

(* Widths and decoders of the fixed-width member types *)
Width(kind) == IF kind = "uint256" THEN 32 ELSE 4

UnserAs(kind, b) ==
    IF kind = "int32" THEN UnserInt32(b)
    ELSE IF kind = "uint32" THEN UnserUint32(b)
    ELSE UnserUint256(b)

(* One READWRITE of a fixed-width member while reading: r is the reader's  *)
(* state, [blk: the object, s: the bytes left, ok: no exception so far].   *)
(* A stream with fewer bytes left than the member's width throws, and the  *)
(* statements after the throwing one are not executed.                     *)
ReadField(r, f, kind) ==
    IF ~r.ok THEN r
    ELSE IF Len(r.s) < Width(kind) THEN [r EXCEPT !.ok = FALSE]
    ELSE [blk |-> [r.blk EXCEPT ![f] = UnserAs(kind, Take(r.s, Width(kind)))],
          s |-> Drop(r.s, Width(kind)), ok |-> TRUE]

(* The header read with nBits and nTime in the wrong order *)
CBlockHeader_Unserialize_Swapped(r) ==
    LET r1 == ReadField(r, "nVersion", "int32")
        r2 == ReadField(r1, "hashPrevBlock", "uint256")
        r3 == ReadField(r2, "hashMerkleRoot", "uint256")
        r4 == ReadField(r3, "nBits", "uint32")
        r5 == ReadField(r4, "nTime", "uint32")
    IN  ReadField(r5, "nNonce", "uint32")

(* READWRITE of the six members in order; the assignment nVersion =          *)
(* this->nVersion after the first one changes nothing.                     *)
CBlockHeader_Unserialize(r) ==
    LET r1 == ReadField(r, "nVersion", "int32")
        r2 == ReadField(r1, "hashPrevBlock", "uint256")
        r3 == ReadField(r2, "hashMerkleRoot", "uint256")
        r4 == ReadField(r3, "nTime", "uint32")
        r5 == ReadField(r4, "nBits", "uint32")
    IN  ReadField(r5, "nNonce", "uint32")

----------------------------------------------------------------------------
(* CBlock *)

CBlock_SetNull(b) ==
    [CBlockHeader_SetNull(b) EXCEPT !.vtx = <<>>, !.vchBlockSig = <<>>,
                                    !.vMerkleTree = <<>>, !.nDoS = 0, !.fChecked = FALSE]

Uninitialized ==
    [nVersion |-> 1, hashPrevBlock |-> 1, hashMerkleRoot |-> 1, nTime |-> 1, nBits |-> 1,
     nNonce |-> 1, vtx |-> <<>>, vchBlockSig |-> <<>>, vMerkleTree |-> <<>>,
     nDoS |-> 1, fChecked |-> TRUE]

CBlock_New == CBlock_SetNull(Uninitialized)

CBlock_GetBlockHeader(b) == [f \in HeaderFields |-> b[f]]

(* READWRITE(vtx) while reading: the vector is cleared, the count is read, *)
(* then the elements one by one; an exception leaves what was read so far. *)
RECURSIVE ReadTxs(_, _)
ReadTxs(r, n) ==
    IF n = 0 THEN r
    ELSE IF Len(r.s) < TxLen THEN [r EXCEPT !.ok = FALSE]
    ELSE ReadTxs([blk |-> [r.blk EXCEPT !.vtx = Append(@, UnserTx(Take(r.s, TxLen)))],
                  s |-> Drop(r.s, TxLen), ok |-> TRUE], n - 1)

ReadTxVector(r) ==
    IF ~r.ok THEN r
    ELSE LET c == [r EXCEPT !.blk.vtx = <<>>]
         IN  IF Len(r.s) < 1 THEN [c EXCEPT !.ok = FALSE]
             ELSE ReadTxs([c EXCEPT !.s = Tail(@)], r.s[1])

(* READWRITE(vchBlockSig) while reading: cleared, count read, resized to   *)
(* the count, then filled from the stream.                                 *)
ReadByteVector(r) ==
    IF ~r.ok THEN r
    ELSE LET c == [r EXCEPT !.blk.vchBlockSig = <<>>]
         IN  IF Len(r.s) < 1 THEN [c EXCEPT !.ok = FALSE]
             ELSE LET n == r.s[1]
                      rest == Tail(r.s)
                  IN  IF Len(rest) < n
                      THEN [c EXCEPT !.blk.vchBlockSig = [i \in 1..n |-> 0], !.s = rest,
                                     !.ok = FALSE]
                      ELSE [c EXCEPT !.blk.vchBlockSig = Take(rest, n), !.s = Drop(rest, n)]

FlagSet(type, flag) == flag \in type

(* The legacy-3 test written with > instead of >= *)
CBlock_Serialize_StrictVersion(b, type) ==
    LET fHeaderOnly == FlagSet(type, "SER_BLOCKHEADERONLY")
        h == CBlockHeader_Serialize(b)
    IN  IF ~fHeaderOnly \/ b.nVersion > LEGACY_VERSION_3
        THEN IF ~fHeaderOnly /\ b.nVersion > LEGACY_VERSION_3
             THEN h \o SerTxVector(b.vtx) \o SerByteVector(b.vchBlockSig)
             ELSE h \o SerTxVector(b.vtx)
        ELSE h

CBlock_Serialize(b, type) ==
    LET fHeaderOnly == FlagSet(type, "SER_BLOCKHEADERONLY")
        h == CBlockHeader_Serialize(b)
    IN  IF ~fHeaderOnly \/ b.nVersion >= LEGACY_VERSION_3
        THEN IF ~fHeaderOnly /\ b.nVersion >= LEGACY_VERSION_3
             THEN h \o SerTxVector(b.vtx) \o SerByteVector(b.vchBlockSig)
             ELSE h \o SerTxVector(b.vtx)
        ELSE h

(* The header-only branch of the reader without its two clear() calls *)
CBlock_Unserialize_NoClear(b, s, type) ==
    LET fHeaderOnly == FlagSet(type, "SER_BLOCKHEADERONLY")
        r1 == CBlockHeader_Unserialize([blk |-> b, s |-> s, ok |-> TRUE])
    IN  IF ~r1.ok THEN r1
        ELSE IF ~fHeaderOnly \/ r1.blk.nVersion >= LEGACY_VERSION_3
        THEN IF ~fHeaderOnly /\ r1.blk.nVersion >= LEGACY_VERSION_3
             THEN ReadByteVector(ReadTxVector(r1))
             ELSE ReadTxVector(r1)
        ELSE r1

(* The result is the reader's state: the object as the call leaves it, the *)
(* bytes left, and whether the call returned (ok) or threw.                *)
CBlock_Unserialize(b, s, type) ==
    LET fHeaderOnly == FlagSet(type, "SER_BLOCKHEADERONLY")
        r1 == CBlockHeader_Unserialize([blk |-> b, s |-> s, ok |-> TRUE])
    IN  IF ~r1.ok THEN r1
        ELSE IF ~fHeaderOnly \/ r1.blk.nVersion >= LEGACY_VERSION_3
        THEN IF ~fHeaderOnly /\ r1.blk.nVersion >= LEGACY_VERSION_3
             THEN ReadByteVector(ReadTxVector(r1))
             ELSE ReadTxVector(r1)
        ELSE [r1 EXCEPT !.blk.vtx = <<>>, !.blk.vchBlockSig = <<>>]

(* nDoS = nDoSIn in place of nDoS += nDoSIn *)
CBlock_DoS_Assign(b, nDoSIn, fIn) == [blk |-> [b EXCEPT !.nDoS = nDoSIn], ret |-> fIn]

(* nDoS += nDoSIn; return fIn; *)
CBlock_DoS(b, nDoSIn, fIn) == [blk |-> [b EXCEPT !.nDoS = @ + nDoSIn], ret |-> fIn]

(* const CTransaction& tx = *vtx[1]; evaluated before any test of           *)
(* vtx.size(). With vtx.size() <= 1 the subscript is out of range: the     *)
(* load of the element either faults or yields whatever lies there.        *)
DerefVtx1(b) ==
    IF Len(b.vtx) > 1
    THEN {[fault |-> FALSE, oob |-> FALSE, tx |-> b.vtx[2]]}
    ELSE {[fault |-> f, oob |-> TRUE, tx |-> t] : f \in BOOLEAN, t \in Txs}

CBlock_IsProofOfStake(b) ==
    {IF d.fault THEN [ret |-> "crash", oob |-> d.oob]
     ELSE [ret |-> Bool2Str(Len(b.vtx) > 1 /\ d.tx.stake), oob |-> d.oob] : d \in DerefVtx1(b)}

CBlock_IsProofOfWork(b) ==
    {IF o.ret = "crash" THEN o ELSE [o EXCEPT !.ret = Bool2Str(o.ret # "true")] :
        o \in CBlock_IsProofOfStake(b)}

Pair(prevout, nTime) == [kind |-> "pair", prevout |-> prevout, nTime |-> nTime]

Crash == [kind |-> "crash", prevout |-> NullOutPoint, nTime |-> 0]

CBlock_GetProofOfStake(b) ==
    {IF d.fault \/ o.ret = "crash" THEN Crash
     ELSE IF o.ret = "true" THEN Pair(d.tx.prevout, d.tx.nTime)
     ELSE Pair(NullOutPoint, 0) : d \in DerefVtx1(b), o \in CBlock_IsProofOfStake(b)}

----------------------------------------------------------------------------
(* CBlockLocator *)

(* The version written in every context *)
CBlockLocator_Serialize_AlwaysVersion(vHave, type, version) ==
    SerInt32(version) \o SerHashVector(vHave)

CBlockLocator_Serialize(vHave, type, version) ==
    IF ~FlagSet(type, "SER_GETHASH")
    THEN SerInt32(version) \o SerHashVector(vHave)
    ELSE SerHashVector(vHave)

CBlockLocator_SetNull(vHave) == <<>>

CBlockLocator_IsNull(vHave) == vHave = <<>>

----------------------------------------------------------------------------
(* State *)

serVars == <<dst, pre, stream, nType, phase>>

posVars == <<retPoS, retPoW, kernel, oobRead>>

thrVars == <<pc, reg, amt, calls>>

Threads == 1..NThreads

NoArgs == [amount |-> 0, outcome |-> "none"]

NoKernel == [kind |-> "none", prevout |-> NullOutPoint, nTime |-> 0]

SerIdle ==
    /\ dst = CBlock_New
    /\ pre = [blk |-> CBlock_New, s |-> <<>>]
    /\ stream = <<>>
    /\ nType = {}
    /\ phase = "none"

CallIdle == lastOp = "CBlock" /\ ret = "none" /\ args = NoArgs /\ sumIn = 0

PoSIdle == retPoS = "none" /\ retPoW = "none" /\ kernel = NoKernel /\ oobRead = FALSE

LocIdle == loc = <<>> /\ sVersion = 0

ThreadsIdle ==
    /\ pc = [t \in Threads |-> "idle"]
    /\ reg = [t \in Threads |-> 0]
    /\ amt = [t \in Threads |-> 0]
    /\ calls = [t \in Threads |-> 0]

(* The state after CBlock() / CBlockLocator() *)
Init == blk = CBlock_New /\ SerIdle /\ CallIdle /\ PoSIdle /\ LocIdle /\ ThreadsIdle

(* A faulting load ends the process *)
Crashed == retPoS = "crash" \/ retPoW = "crash" \/ kernel.kind = "crash"

----------------------------------------------------------------------------
(* Header operations *)

HdrVals == {0, 1}

SampleHeaders ==
    {[CBlock_New EXCEPT !.nVersion = a, !.hashPrevBlock = b, !.hashMerkleRoot = c,
                        !.nTime = d, !.nBits = e, !.nNonce = f] :
        a \in HdrVals, b \in HdrVals, c \in HdrVals, d \in HdrVals, e \in HdrVals, f \in HdrVals}

HdrStreams ==
    {Take(CBlockHeader_Serialize(h), n) : h \in SampleHeaders, n \in {0, 3, 4, 40, 68, 72, 76, 79, 80}}

(* A caller's assignment to a public header member *)
HdrAssign(f, v) ==
    /\ blk' = [blk EXCEPT ![f] = v]
    /\ lastOp' = "assign"
    /\ ret' = "none"
    /\ UNCHANGED <<args, sumIn, serVars, posVars, loc, sVersion, thrVars>>

HdrSetNull ==
    /\ blk' = CBlockHeader_SetNull(blk)
    /\ lastOp' = "SetNull"
    /\ ret' = "none"
    /\ UNCHANGED <<args, sumIn, serVars, posVars, loc, sVersion, thrVars>>

HdrIsNull ==
    /\ ret' = Bool2Str(CBlockHeader_IsNull(blk))
    /\ lastOp' = "IsNull"
    /\ UNCHANGED <<blk, args, sumIn, serVars, posVars, loc, sVersion, thrVars>>

HdrUnserialize(s) ==
    LET r == CBlockHeader_Unserialize([blk |-> blk, s |-> s, ok |-> TRUE])
    IN  /\ blk' = r.blk
        /\ lastOp' = "Unserialize"
        /\ ret' = IF r.ok THEN "ok" ELSE "throw"
        /\ UNCHANGED <<args, sumIn, serVars, posVars, loc, sVersion, thrVars>>

NextHeader ==
    \/ \E f \in HeaderFields, v \in HdrVals : HdrAssign(f, v)
    \/ HdrSetNull
    \/ HdrIsNull
    \/ \E s \in HdrStreams : HdrUnserialize(s)

SpecHeader == Init /\ [][NextHeader]_vars

----------------------------------------------------------------------------
(* Block operations *)

(* vtx.push_back(tx) by the code that assembles the block *)
PushTx(t) ==
    /\ ~Crashed
    /\ Len(blk.vtx) < MaxTx
    /\ blk' = [blk EXCEPT !.vtx = Append(@, t)]
    /\ lastOp' = "push_back"
    /\ ret' = "none"
    /\ retPoS' = "none" /\ retPoW' = "none" /\ kernel' = NoKernel /\ oobRead' = FALSE
    /\ UNCHANGED <<args, sumIn, serVars, loc, sVersion, thrVars>>

BlkSetNull ==
    /\ ~Crashed
    /\ blk' = CBlock_SetNull(blk)
    /\ lastOp' = "SetNull"
    /\ ret' = "none"
    /\ args' = NoArgs
    /\ sumIn' = 0
    /\ retPoS' = "none" /\ retPoW' = "none" /\ kernel' = NoKernel /\ oobRead' = FALSE
    /\ UNCHANGED <<serVars, loc, sVersion, thrVars>>

CallIsProofOfStake ==
    /\ ~Crashed
    /\ \E o \in CBlock_IsProofOfStake(blk) :
          /\ retPoS' = o.ret
          /\ ret' = o.ret
          /\ oobRead' = o.oob
    /\ lastOp' = "IsProofOfStake"
    /\ UNCHANGED <<blk, retPoW, kernel, args, sumIn, serVars, loc, sVersion, thrVars>>

CallIsProofOfWork ==
    /\ ~Crashed
    /\ \E o \in CBlock_IsProofOfWork(blk) :
          /\ retPoW' = o.ret
          /\ ret' = o.ret
          /\ oobRead' = o.oob
    /\ lastOp' = "IsProofOfWork"
    /\ UNCHANGED <<blk, retPoS, kernel, args, sumIn, serVars, loc, sVersion, thrVars>>

CallGetProofOfStake ==
    /\ ~Crashed
    /\ \E k \in CBlock_GetProofOfStake(blk) :
          /\ kernel' = k
          /\ ret' = k.kind
    /\ oobRead' = (Len(blk.vtx) <= 1)
    /\ lastOp' = "GetProofOfStake"
    /\ UNCHANGED <<blk, retPoS, retPoW, args, sumIn, serVars, loc, sVersion, thrVars>>

NextPoS ==
    \/ \E t \in Txs : PushTx(t)
    \/ BlkSetNull
    \/ CallIsProofOfStake
    \/ CallIsProofOfWork
    \/ CallGetProofOfStake

SpecPoS == Init /\ [][NextPoS]_vars

----------------------------------------------------------------------------
(* The denial-of-service score, one caller *)

Amounts == {0, 1, 20, 100}

CoinStake == [stake |-> TRUE, prevout |-> [hash |-> 1, n |-> 2], nTime |-> 7]

CoinBase == [stake |-> FALSE, prevout |-> NullOutPoint, nTime |-> 0]

CallDoS(a, f) ==
    /\ blk.nDoS + a <= MaxDoS
    /\ LET o == CBlock_DoS(blk, a, f)
       IN  /\ blk' = o.blk
           /\ ret' = Bool2Str(o.ret)
    /\ lastOp' = "DoS"
    /\ args' = [amount |-> a, outcome |-> Bool2Str(f)]
    /\ sumIn' = sumIn + a
    /\ UNCHANGED <<serVars, posVars, loc, sVersion, thrVars>>

(* A caller's assignment to vchBlockSig *)
SetSig(g) ==
    /\ blk' = [blk EXCEPT !.vchBlockSig = g]
    /\ lastOp' = "assign"
    /\ ret' = "none"
    /\ UNCHANGED <<args, sumIn, serVars, posVars, loc, sVersion, thrVars>>

NextDoS ==
    \/ \E a \in Amounts, f \in BOOLEAN : CallDoS(a, f)
    \/ BlkSetNull
    \/ PushTx(CoinBase)
    \/ SetSig(<<48>>)
    \/ HdrAssign("nBits", 1)

SpecDoS == Init /\ [][NextDoS]_vars

----------------------------------------------------------------------------
(* The denial-of-service score, several threads calling DoS on one block:  *)
(* nDoS += nDoSIn is a load, an addition and a store, with no lock.        *)

RaceAmounts == {1, 20}

RaceCall(t, a) ==
    /\ pc[t] = "idle"
    /\ calls[t] < MaxCalls
    /\ pc' = [pc EXCEPT ![t] = "load"]
    /\ amt' = [amt EXCEPT ![t] = a]
    /\ calls' = [calls EXCEPT ![t] = @ + 1]
    /\ sumIn' = sumIn + a
    /\ UNCHANGED <<blk, reg, lastOp, ret, args, serVars, posVars, loc, sVersion>>

RaceLoad(t) ==
    /\ pc[t] = "load"
    /\ reg' = [reg EXCEPT ![t] = blk.nDoS]
    /\ pc' = [pc EXCEPT ![t] = "store"]
    /\ UNCHANGED <<blk, amt, calls, sumIn, lastOp, ret, args, serVars, posVars, loc, sVersion>>

RaceStore(t) ==
    /\ pc[t] = "store"
    /\ blk' = [blk EXCEPT !.nDoS = CBlock_DoS([blk EXCEPT !.nDoS = reg[t]], amt[t], TRUE).blk.nDoS]
    /\ pc' = [pc EXCEPT ![t] = "idle"]
    /\ UNCHANGED <<reg, amt, calls, sumIn, lastOp, ret, args, serVars, posVars, loc, sVersion>>

NextRace ==
    \/ \E t \in Threads, a \in RaceAmounts : RaceCall(t, a)
    \/ \E t \in Threads : RaceLoad(t)
    \/ \E t \in Threads : RaceStore(t)

SpecRace == Init /\ [][NextRace]_vars

----------------------------------------------------------------------------
(* Locator operations *)

Hashes == {1, 300}

LocTypes == {{"SER_NETWORK"}, {"SER_DISK"}, {"SER_GETHASH"}}

LocVersions == {209, 70002}

LocPush(h) ==
    /\ Len(loc) < MaxHave
    /\ loc' = Append(loc, h)
    /\ lastOp' = "push_back"
    /\ ret' = "none"
    /\ UNCHANGED <<blk, args, sumIn, serVars, posVars, sVersion, thrVars>>

LocSetNull ==
    /\ loc' = CBlockLocator_SetNull(loc)
    /\ lastOp' = "SetNull"
    /\ ret' = "none"
    /\ UNCHANGED <<blk, args, sumIn, serVars, posVars, sVersion, thrVars>>

LocIsNull ==
    /\ ret' = Bool2Str(CBlockLocator_IsNull(loc))
    /\ lastOp' = "IsNull"
    /\ UNCHANGED <<blk, loc, args, sumIn, serVars, posVars, sVersion, thrVars>>

LocSerialize(type, version) ==
    /\ stream' = CBlockLocator_Serialize(loc, type, version)
    /\ nType' = type
    /\ sVersion' = version
    /\ lastOp' = "Serialize"
    /\ ret' = "none"
    /\ UNCHANGED <<blk, loc, dst, pre, phase, args, sumIn, posVars, thrVars>>

NextLoc ==
    \/ \E h \in Hashes : LocPush(h)
    \/ LocSetNull
    \/ LocIsNull
    \/ \E type \in LocTypes, version \in LocVersions : LocSerialize(type, version)

SpecLoc == Init /\ [][NextLoc]_vars

----------------------------------------------------------------------------
(* Block encode / decode: a writer encodes blk into the stream, the stream *)
(* may lose its tail, and a reader decodes it into dst.                    *)

SerVersions == LEGACY_VERSION_2..CURRENT_VERSION

SerTxs == {CoinBase, CoinStake}

SigBytes == {48}

SerTypes == {{"SER_NETWORK"}, {"SER_NETWORK", "SER_BLOCKHEADERONLY"}}

SrcBlocks ==
    {[CBlock_New EXCEPT !.nVersion = v, !.hashPrevBlock = 258, !.hashMerkleRoot = 3,
                        !.nTime = 1500000000, !.nBits = 504365040, !.nNonce = 70000,
                        !.vtx = x, !.vchBlockSig = g] :
        v \in SerVersions, x \in SeqsUpTo(SerTxs, MaxTx), g \in SeqsUpTo(SigBytes, MaxSig)}

UsedBlock ==
    [CBlock_New EXCEPT !.nVersion = CURRENT_VERSION, !.hashPrevBlock = 9, !.hashMerkleRoot = 10,
                       !.nTime = 11, !.nBits = 12, !.nNonce = 13,
                       !.vtx = <<CoinStake>>, !.vchBlockSig = <<49, 50, 51, 52>>]

DstBlocks == {CBlock_New, UsedBlock}

InitSer ==
    /\ blk \in SrcBlocks
    /\ dst \in DstBlocks
    /\ nType \in SerTypes
    /\ pre = [blk |-> dst, s |-> <<>>]
    /\ stream = <<>>
    /\ phase = "start"
    /\ CallIdle /\ PoSIdle /\ LocIdle /\ ThreadsIdle

SerSerialize ==
    /\ phase = "start"
    /\ stream' = CBlock_Serialize(blk, nType)
    /\ phase' = "encoded"
    /\ lastOp' = "Serialize"
    /\ UNCHANGED <<blk, dst, pre, nType, ret, args, sumIn, posVars, loc, sVersion, thrVars>>

SerTruncate(n) ==
    /\ phase = "encoded"
    /\ n < Len(stream)
    /\ stream' = Take(stream, n)
    /\ phase' = "truncated"
    /\ UNCHANGED <<blk, dst, pre, nType, lastOp, ret, args, sumIn, posVars, loc, sVersion, thrVars>>

SerUnserialize ==
    /\ phase \in {"encoded", "truncated"}
    /\ LET r == CBlock_Unserialize(dst, stream, nType)
       IN  /\ dst' = r.blk
           /\ stream' = r.s
           /\ phase' = IF r.ok THEN "decoded" ELSE "failed"
           /\ ret' = IF r.ok THEN "ok" ELSE "throw"
    /\ pre' = [blk |-> dst, s |-> stream]
    /\ lastOp' = "Unserialize"
    /\ UNCHANGED <<blk, nType, args, sumIn, posVars, loc, sVersion, thrVars>>

MaxStream == 80 + 1 + MaxTx * TxLen + 1 + MaxSig

NextSer ==
    \/ SerSerialize
    \/ \E n \in 0..MaxStream : SerTruncate(n)
    \/ SerUnserialize

SpecSer == InitSer /\ [][NextSer]_vars

----------------------------------------------------------------------------
(* Properties *)

HeaderOnly == "SER_BLOCKHEADERONLY" \in nType

\* C1: IsProofOfStake() returns exactly (vtx.size() > 1 and vtx[1] is a stake
\* transaction), and with vtx.size() <= 1 it does so without evaluating vtx[1].
C1_IsProofOfStake ==
    lastOp = "IsProofOfStake" =>
        /\ ret = Bool2Str(Len(blk.vtx) > 1 /\ blk.vtx[2].stake)
        /\ ~oobRead

\* C2: the encoding of a block is its header alone (header-only, version < 3),
\* header + transactions (header-only with version >= 3, or full with
\* version < 3), or header + transactions + signature (full, version >= 3).
C2_EncodingByVersionAndMode ==
    phase = "encoded" =>
        LET body == Drop(stream, 80)
            v == blk.nVersion
        IN  /\ Len(stream) >= 80
            /\ Take(stream, 80) = CBlockHeader_Serialize(blk)
            /\ (HeaderOnly /\ v < 3) => body = <<>>
            /\ ((HeaderOnly /\ v >= 3) \/ (~HeaderOnly /\ v < 3)) => body = SerTxVector(blk.vtx)
            /\ (~HeaderOnly /\ v >= 3) =>
                   body = SerTxVector(blk.vtx) \o SerByteVector(blk.vchBlockSig)

C2_Witness ==
    /\ phase = "encoded"
    /\ HeaderOnly
    /\ blk.nVersion = 3
    /\ Len(blk.vtx) = 2
    /\ blk.vchBlockSig # <<>>
    /\ Len(stream) = 80 + 1 + 2 * TxLen

\* C3 as stated: decoding the encoding of b in the same mode gives b's header,
\* transactions and signature, except that header-only with version < 3 gives
\* empty transactions and an empty signature.
C3_RoundTripAsStated ==
    phase = "decoded" =>
        /\ CBlock_GetBlockHeader(dst) = CBlock_GetBlockHeader(blk)
        /\ IF HeaderOnly /\ blk.nVersion < 3
           THEN dst.vtx = <<>> /\ dst.vchBlockSig = <<>>
           ELSE dst.vtx = blk.vtx /\ dst.vchBlockSig = blk.vchBlockSig

\* C3 as amended: the header and the transactions come back as stated; the
\* signature comes back only in full mode with version >= 3; in full mode with
\* version < 3 and in header-only mode with version >= 3 the signature is not
\* in the encoding and the destination keeps the signature it had.
C3_RoundTrip ==
    phase = "decoded" =>
        /\ CBlock_GetBlockHeader(dst) = CBlock_GetBlockHeader(blk)
        /\ IF HeaderOnly /\ blk.nVersion < 3
           THEN dst.vtx = <<>> /\ dst.vchBlockSig = <<>>
           ELSE /\ dst.vtx = blk.vtx
                /\ dst.vchBlockSig = IF ~HeaderOnly /\ blk.nVersion >= 3
                                     THEN blk.vchBlockSig
                                     ELSE pre.blk.vchBlockSig

C3_Witness ==
    /\ phase = "decoded"
    /\ HeaderOnly
    /\ blk.nVersion = 3
    /\ Len(blk.vtx) = 2
    /\ dst.vtx = blk.vtx
    /\ blk.vchBlockSig # <<>>
    /\ pre.blk.vchBlockSig # <<>>
    /\ dst.vchBlockSig = pre.blk.vchBlockSig
    /\ dst.vchBlockSig # blk.vchBlockSig

\* C4 as stated: a decode that fails on a truncated stream leaves the
\* destination's header, transactions and signature as they were.
C4_AllOrNothingAsStated ==
    phase = "failed" =>
        /\ CBlock_GetBlockHeader(dst) = CBlock_GetBlockHeader(pre.blk)
        /\ dst.vtx = pre.blk.vtx
        /\ dst.vchBlockSig = pre.blk.vchBlockSig

\* C4 as amended: a decode that fails on a truncated stream has overwritten
\* the members that precede the failing one with the decoded values, and
\* leaves the members that follow the failing one as they were.
C4_FailedDecodeIsPartial ==
    phase = "failed" =>
        LET n == Len(pre.s)
            vtxEnd == 80 + Len(SerTxVector(blk.vtx))
            Member(f, end) == dst[f] = IF n >= end THEN blk[f] ELSE pre.blk[f]
        IN  /\ Member("nVersion", 4)
            /\ Member("hashPrevBlock", 36)
            /\ Member("hashMerkleRoot", 68)
            /\ Member("nTime", 72)
            /\ Member("nBits", 76)
            /\ Member("nNonce", 80)
            /\ n < 80 => dst.vtx = pre.blk.vtx
            /\ n < vtxEnd => dst.vchBlockSig = pre.blk.vchBlockSig
            /\ n >= vtxEnd => dst.vtx = blk.vtx

C4_Witness ==
    /\ phase = "failed"
    /\ Len(pre.s) = 70
    /\ dst.nVersion = blk.nVersion /\ dst.nVersion # pre.blk.nVersion
    /\ dst.hashMerkleRoot = blk.hashMerkleRoot /\ dst.hashMerkleRoot # pre.blk.hashMerkleRoot
    /\ dst.nTime = pre.blk.nTime /\ dst.nTime # blk.nTime
    /\ dst.vtx = pre.blk.vtx /\ dst.vtx # blk.vtx

\* C5: for a block that is not proof-of-stake (in particular one with at most
\* one transaction) GetProofOfStake() returns an explicit absent value: not a
\* fault and not a pair.
C5_KernelAbsent ==
    (lastOp = "GetProofOfStake" /\ ~(Len(blk.vtx) > 1 /\ blk.vtx[2].stake)) =>
        kernel.kind = "absent"

\* C6: for every block, once IsProofOfWork() and IsProofOfStake() have both
\* been called on it, exactly one of them has returned true.
C6_ExactlyOne ==
    (retPoS # "none" /\ retPoW # "none") => ((retPoS = "true") # (retPoW = "true"))

\* C7: IsNull() is true exactly when nBits is 0, whatever the other members
\* hold, and a header just constructed or just SetNull'ed is null.
C7_NullSentinel ==
    /\ CBlockHeader_IsNull(blk) <=> (blk.nBits = 0)
    /\ lastOp \in {"CBlock", "SetNull"} => CBlockHeader_IsNull(blk)
    /\ lastOp = "IsNull" => ret = Bool2Str(blk.nBits = 0)

C7_Witness ==
    /\ lastOp = "IsNull"
    /\ ret = "true"
    /\ blk.nVersion # 0 /\ blk.hashPrevBlock # 0 /\ blk.hashMerkleRoot # 0
    /\ blk.nTime # 0 /\ blk.nNonce # 0

\* C8: DoS(nDoSIn, fIn) adds exactly nDoSIn to nDoS, returns fIn and changes no
\* other member; so nDoS is the sum of the amounts passed since SetNull.
C8_PenalizeFrame ==
    /\ [](blk.nDoS = sumIn)
    /\ [][lastOp' = "DoS" =>
            /\ blk'.nDoS = blk.nDoS + args'.amount
            /\ ret' = args'.outcome
            /\ [blk' EXCEPT !.nDoS = 0] = [blk EXCEPT !.nDoS = 0]]_vars

C8_Witness ==
    /\ lastOp = "DoS"
    /\ args = [amount |-> 20, outcome |-> "false"]
    /\ ret = "false"
    /\ blk.nDoS = 41
    /\ blk.vtx # <<>> /\ blk.vchBlockSig # <<>> /\ blk.nBits # 0

\* C9: outside a hash context the locator's encoding is the 4-byte version
\* followed by the length-prefixed hashes, in a hash context the
\* length-prefixed hashes alone; the empty locator outside a hash context is
\* the version followed by a zero count; IsNull() is true exactly when vHave
\* is empty.
C9_LocatorEncoding ==
    /\ lastOp = "Serialize" =>
          LET hashOnly == "SER_GETHASH" \in nType
              body == IF hashOnly THEN stream ELSE Drop(stream, 4)
          IN  /\ ~hashOnly => (Len(stream) >= 4 /\ UnserInt32(Take(stream, 4)) = sVersion)
              /\ Len(body) = 1 + 32 * Len(loc)
              /\ body[1] = Len(loc)
              /\ \A i \in 1..Len(loc) :
                    UnserUint256(SubSeq(body, 2 + 32 * (i - 1), 1 + 32 * i)) = loc[i]
              /\ (~hashOnly /\ loc = <<>>) => stream = SerInt32(sVersion) \o <<0>>
    /\ lastOp = "IsNull" => ret = Bool2Str(Len(loc) = 0)

C9_Witness ==
    /\ lastOp = "Serialize"
    /\ "SER_GETHASH" \notin nType
    /\ loc = <<>>
    /\ sVersion = 70002
    /\ stream = <<114, 17, 1, 0, 0>>

\* C10: when no DoS call is in flight, nDoS is its initial value plus the sum
\* of the amounts of all calls made, under every interleaving.
C10_NoLostUpdate ==
    (\A t \in Threads : pc[t] = "idle") => blk.nDoS = sumIn

====
